---- MODULE Spec2Model ----
(***************************************************************************)
(* Installer configuration and validation model of proxmox-tui-installer:  *)
(* CidrAddress (utils.rs) and the option groups (options.rs).              *)
(*                                                                         *)
(* Text is modelled by TLA+ strings, read character by character.  A       *)
(* Result is a record [ok |-> TRUE, val |-> v] or                          *)
(* [ok |-> FALSE, err |-> variant, cause |-> <<>> or <<inner error>>].     *)
(* An Option is a sequence: <<>> is None and <<v>> is Some(v).             *)
(***************************************************************************)
EXTENDS Integers, Sequences, FiniteSets, TLC

(***************************************************************************)
(* Text helpers.                                                           *)
(***************************************************************************)
Char(s, i) == SubSeq(s, i, i)

Rest(s, i) == SubSeq(s, i, Len(s))

DecDigits == "0123456789"

HexDigits == "0123456789abcdef"

HexUpper == "0123456789ABCDEF"

IsDecDigit(c) == \E d \in 1..10 : Char(DecDigits, d) = c

IsHexDigit(c) == \E d \in 1..16 : Char(HexDigits, d) = c \/ Char(HexUpper, d) = c

DecVal(c) == (CHOOSE d \in 1..10 : Char(DecDigits, d) = c) - 1

HexVal(c) == (CHOOSE d \in 1..16 : Char(HexDigits, d) = c \/ Char(HexUpper, d) = c) - 1

\* Position of the first occurrence of character c in s, 0 when there is none.
IndexOf(s, c) ==
    IF \E i \in 1..Len(s) : Char(s, i) = c
    THEN CHOOSE i \in 1..Len(s) : Char(s, i) = c /\ \A j \in 1..(i - 1) : Char(s, j) # c
    ELSE 0

\* Position of the last occurrence of character c in s, 0 when there is none.
LastIndexOf(s, c) ==
    IF \E i \in 1..Len(s) : Char(s, i) = c
    THEN CHOOSE i \in 1..Len(s) : Char(s, i) = c /\ \A j \in (i + 1)..Len(s) : Char(s, j) # c
    ELSE 0

SplitAt(s, i) == IF i = 0 THEN <<>> ELSE << <<SubSeq(s, 1, i - 1), Rest(s, i + 1)>> >>

\* str::rsplit_once: the split at the last delimiter.
rsplit_once(s, c) == SplitAt(s, LastIndexOf(s, c))

\* str::split_once: the text before and after the first delimiter, or None.
split_once(s, c) == SplitAt(s, IndexOf(s, c))

RECURSIVE FmtNat(_)
\* Display of a small unsigned integer: decimal, no sign, no leading zeros.
FmtNat(n) ==
    IF n < 10 THEN Char(DecDigits, n + 1)
    ELSE FmtNat(n \div 10) \o Char(DecDigits, (n % 10) + 1)

RECURSIVE FmtHex(_)
\* LowerHex of a u16: lower-case hexadecimal, no leading zeros.
FmtHex(n) ==
    IF n < 16 THEN Char(HexDigits, n + 1)
    ELSE FmtHex(n \div 16) \o Char(HexDigits, (n % 16) + 1)

(***************************************************************************)
(* usize (64 bits).  A value is held as three decimal limbs                *)
(* hi * LimbBase^2 + mid * LimbBase + lo, so that the whole range up to    *)
(* usize::MAX = 18446744073709551615 is represented exactly.               *)
(***************************************************************************)
LimbBase == 10000000

USIZE_MAX == [hi |-> 184467, mid |-> 4407370, lo |-> 9551615]

Usize(n) == [hi |-> 0, mid |-> (n \div LimbBase) % LimbBase, lo |-> n % LimbBase]

UsizeGt(a, b) ==
    \/ a.hi > b.hi
    \/ a.hi = b.hi /\ a.mid > b.mid
    \/ a.hi = b.hi /\ a.mid = b.mid /\ a.lo > b.lo

\* usize::checked_mul(10) then usize::checked_add(d): None on overflow.
CheckedMul10Add(a, d) ==
    LET lo  == a.lo * 10 + d
        mid == a.mid * 10 + (lo \div LimbBase)
        hi  == a.hi * 10 + (mid \div LimbBase)
        r   == [hi |-> hi, mid |-> mid % LimbBase, lo |-> lo % LimbBase]
    IN  IF UsizeGt(r, USIZE_MAX) THEN <<>> ELSE <<r>>

RECURSIVE ParseDigits(_, _)
\* The digit loop of usize::from_str: accumulate from the left, every
\* character must be a decimal digit, the value must fit.
NextDigit(s, next) ==
    IF next = <<>> THEN [ok |-> FALSE, err |-> "PosOverflow"]
    ELSE ParseDigits(Rest(s, 2), next[1])

ParseDigits(s, acc) ==
    IF s = "" THEN [ok |-> TRUE, val |-> acc]
    ELSE IF ~IsDecDigit(Char(s, 1)) THEN [ok |-> FALSE, err |-> "InvalidDigit"]
    ELSE NextDigit(s, CheckedMul10Add(acc, DecVal(Char(s, 1))))

\* usize::from_str (radix 10): empty text is an error, a lone sign is an
\* error, one leading '+' is skipped, '-' is not a digit of an unsigned type.
ParseUsize(s) ==
    IF s = "" THEN [ok |-> FALSE, err |-> "Empty"]
    ELSE IF s = "+" \/ s = "-" THEN [ok |-> FALSE, err |-> "InvalidDigit"]
    ELSE IF Char(s, 1) = "+" THEN ParseDigits(Rest(s, 2), Usize(0))
    ELSE ParseDigits(s, Usize(0))

RECURSIVE Pad7(_)
Pad7(t) == IF Len(t) >= 7 THEN t ELSE Pad7("0" \o t)

\* Display of a usize: decimal, no sign, no leading zeros.
FmtUsize(u) ==
    IF u.hi > 0 THEN FmtNat(u.hi) \o Pad7(FmtNat(u.mid)) \o Pad7(FmtNat(u.lo))
    ELSE IF u.mid > 0 THEN FmtNat(u.mid) \o Pad7(FmtNat(u.lo))
    ELSE FmtNat(u.lo)

(***************************************************************************)
(* std::net address parsing and formatting.  A parser position is the      *)
(* index of the next unread character; a read yields None (<<>>) and       *)
(* consumes nothing, or Some([val, pos]).                                  *)
(*   IpAddr::V4 is [v |-> 4, octets |-> <<a, b, c, d>>],                   *)
(*   IpAddr::V6 is [v |-> 6, segments |-> <<s1, ..., s8>>].                *)
(***************************************************************************)
\* IpAddr::V4
V4(a, b, c, d) == [v |-> 4, octets |-> <<a, b, c, d>>]

\* IpAddr::V6
V6(g) == [v |-> 6, segments |-> g]

IsRadixDigit(c, radix) == IF radix = 16 THEN IsHexDigit(c) ELSE IsDecDigit(c)

RadixVal(c, radix) == IF radix = 16 THEN HexVal(c) ELSE DecVal(c)

RECURSIVE DigitRun(_, _, _)
\* Number of consecutive digits of the radix from position pos on.
DigitRun(s, pos, radix) ==
    IF pos <= Len(s) /\ IsRadixDigit(Char(s, pos), radix)
    THEN 1 + DigitRun(s, pos + 1, radix)
    ELSE 0

RECURSIVE DigitsValue(_, _, _)
DigitsValue(s, radix, acc) ==
    IF s = "" THEN acc
    ELSE DigitsValue(Rest(s, 2), radix, acc * radix + RadixVal(Char(s, 1), radix))

\* The value read_number returns for a run of n digits at pos: None when
\* there is none, when there are more than maxDigits, when the value exceeds
\* maxVal (the checked arithmetic of the target type), or on a forbidden
\* zero prefix.
NumberOf(s, pos, radix, maxDigits, allowZeroPrefix, maxVal, n) ==
    IF n = 0 \/ n > maxDigits THEN <<>>
    ELSE IF ~allowZeroPrefix /\ Char(s, pos) = "0" /\ n > 1 THEN <<>>
    ELSE IF DigitsValue(SubSeq(s, pos, pos + n - 1), radix, 0) > maxVal THEN <<>>
    ELSE <<[val |-> DigitsValue(SubSeq(s, pos, pos + n - 1), radix, 0), pos |-> pos + n]>>

\* Parser::read_number: reads every digit that follows.
read_number(s, pos, radix, maxDigits, allowZeroPrefix, maxVal) ==
    NumberOf(s, pos, radix, maxDigits, allowZeroPrefix, maxVal, DigitRun(s, pos, radix))

\* Parser::read_separator: before every item but the first, the separator.
\* Yields the position where the item starts, or 0.
read_separator(s, pos, sep, index) ==
    IF index = 0 THEN pos
    ELSE IF pos <= Len(s) /\ Char(s, pos) = sep THEN pos + 1
    ELSE 0

\* An item after its separator: None when the separator is missing.
OctetAt(s, at) == IF at = 0 THEN <<>> ELSE read_number(s, at, 10, 3, FALSE, 255)

RECURSIVE ReadV4Groups(_, _, _, _)
NextV4Group(s, i, acc, g) ==
    IF g = <<>> THEN <<>> ELSE ReadV4Groups(s, g[1].pos, i + 1, Append(acc, g[1].val))

ReadV4Groups(s, pos, i, acc) ==
    IF i = 4 THEN <<[val |-> acc, pos |-> pos]>>
    ELSE NextV4Group(s, i, acc, OctetAt(s, read_separator(s, pos, ".", i)))

\* Parser::read_ipv4_addr: four decimal octets separated by '.'.
read_ipv4_addr(s, pos) == ReadV4Groups(s, pos, 0, <<>>)

GroupAt(s, at) == IF at = 0 THEN <<>> ELSE read_number(s, at, 16, 4, TRUE, 65535)

EmbeddedV4At(s, at, allowed) == IF allowed /\ at # 0 THEN read_ipv4_addr(s, at) ELSE <<>>

RECURSIVE read_groups(_, _, _, _, _)
\* One round of read_groups: v4 is the embedded IPv4 address read, if any,
\* and at the position after the separator.
NextGroup(s, pos, i, limit, acc, v4, at) ==
    IF v4 # <<>>
    THEN [groups |-> acc \o << v4[1].val[1] * 256 + v4[1].val[2],
                               v4[1].val[3] * 256 + v4[1].val[4] >>,
          ipv4 |-> TRUE, pos |-> v4[1].pos]
    ELSE IF GroupAt(s, at) = <<>> THEN [groups |-> acc, ipv4 |-> FALSE, pos |-> pos]
    ELSE read_groups(s, GroupAt(s, at)[1].pos, i + 1, limit,
                     Append(acc, GroupAt(s, at)[1].val))

GroupsFrom(s, pos, i, limit, acc, at) ==
    NextGroup(s, pos, i, limit, acc, EmbeddedV4At(s, at, i < limit - 1), at)

\* read_groups of Parser::read_ipv6_addr: up to limit groups of at most four
\* hexadecimal digits separated by ':', the last two of which may be an
\* embedded IPv4 address.  Yields the groups read, whether an IPv4 address
\* ended them, and the position reached.
read_groups(s, pos, i, limit, acc) ==
    IF i >= limit THEN [groups |-> acc, ipv4 |-> FALSE, pos |-> pos]
    ELSE GroupsFrom(s, pos, i, limit, acc, read_separator(s, pos, ":", i))

Zeros(n) == [k \in 1..n |-> 0]

\* The address of a head of hn groups, a "::" and a tail.
JoinTail(head, hn, tail) ==
    <<[val |-> head.groups \o Zeros(8 - hn - Len(tail.groups)) \o tail.groups,
       pos |-> tail.pos]>>

AfterHead(s, head, hn) ==
    IF hn = 8 THEN <<[val |-> head.groups, pos |-> head.pos]>>
    ELSE IF head.ipv4 THEN <<>>
    ELSE IF ~(head.pos + 1 <= Len(s) /\ SubSeq(s, head.pos, head.pos + 1) = "::")
         THEN <<>>
    ELSE JoinTail(head, hn, read_groups(s, head.pos + 2, 0, 8 - (hn + 1), <<>>))

HeadOf(s, head) == AfterHead(s, head, Len(head.groups))

\* Parser::read_ipv6_addr: eight groups, or a head and a tail around one "::".
read_ipv6_addr(s, pos) == HeadOf(s, read_groups(s, pos, 0, 8, <<>>))

AsV6(v6) ==
    IF v6 = <<>> THEN <<>>
    ELSE <<[val |-> [v |-> 6, segments |-> v6[1].val], pos |-> v6[1].pos]>>

V4OrElseV6(s, pos, v4) ==
    IF v4 # <<>> THEN <<[val |-> [v |-> 4, octets |-> v4[1].val], pos |-> v4[1].pos]>>
    ELSE AsV6(read_ipv6_addr(s, pos))

\* Parser::read_ip_addr: an IPv4 address, else an IPv6 address.
read_ip_addr(s, pos) == V4OrElseV6(s, pos, read_ipv4_addr(s, pos))

\* Parser::parse_with: the whole text must have been read.
parse_with(s, r) ==
    IF r # <<>> /\ r[1].pos = Len(s) + 1
    THEN [ok |-> TRUE, val |-> r[1].val]
    ELSE [ok |-> FALSE, err |-> "AddrParseError"]

\* IpAddr::from_str
ParseIpAddr(s) == parse_with(s, read_ip_addr(s, 1))

\* Display of an Ipv4Addr.
FmtIpv4(o) ==
    FmtNat(o[1]) \o "." \o FmtNat(o[2]) \o "." \o FmtNat(o[3]) \o "." \o FmtNat(o[4])

RECURSIVE FmtSubslice(_)
\* fmt_subslice: the groups in lower-case hexadecimal, joined by ':'.
FmtSubslice(g) ==
    IF g = <<>> THEN ""
    ELSE IF Len(g) = 1 THEN FmtHex(g[1])
    ELSE FmtHex(g[1]) \o ":" \o FmtSubslice(Tail(g))

\* Length of the run of zero groups that starts at index i.
ZeroRun(g, i) ==
    IF g[i] # 0 THEN 0
    ELSE CHOOSE n \in 1..(Len(g) - i + 1) :
            /\ \A k \in i..(i + n - 1) : g[k] = 0
            /\ (i + n > Len(g) \/ g[i + n] # 0)

\* The start of the longest run of zero groups, the first one among equals.
LongestZeroRun(g) ==
    CHOOSE i \in 1..Len(g) :
        /\ \A j \in 1..Len(g) : ZeroRun(g, j) <= ZeroRun(g, i)
        /\ \A j \in 1..(i - 1) : ZeroRun(g, j) < ZeroRun(g, i)

Compressed(g, start, len) ==
    IF len > 1
    THEN FmtSubslice(SubSeq(g, 1, start - 1)) \o "::" \o FmtSubslice(SubSeq(g, start + len, 8))
    ELSE FmtSubslice(g)

CompressAt(g, start) == Compressed(g, start, ZeroRun(g, start))

\* Display of an Ipv6Addr: an IPv4-mapped address as "::ffff:a.b.c.d",
\* otherwise the longest run of two or more zero groups is written "::".
FmtIpv6(g) ==
    IF SubSeq(g, 1, 6) = <<0, 0, 0, 0, 0, 65535>>
    THEN "::ffff:" \o FmtIpv4(<<g[7] \div 256, g[7] % 256, g[8] \div 256, g[8] % 256>>)
    ELSE CompressAt(g, LongestZeroRun(g))

\* Display of an IpAddr.
FmtIpAddr(a) == IF a.v = 4 THEN FmtIpv4(a.octets) ELSE FmtIpv6(a.segments)

(***************************************************************************)
(* utils.rs: CidrAddress.                                                  *)
(***************************************************************************)
Ok(v) == [ok |-> TRUE, val |-> v]

Err(variant, cause) == [ok |-> FALSE, err |-> variant, cause |-> cause]

\* new without the range check.
new_unchecked(addr, mask) == Ok([addr |-> addr, mask |-> mask])

\* CidrAddress::new
new(addr, mask) ==
    IF UsizeGt(mask, Usize(32))
    THEN Err("InvalidMask", <<>>)
    ELSE Ok([addr |-> addr, mask |-> mask])

\* CidrAddress::addr
addr(c) == c.addr

\* CidrAddress::mask
mask(c) == c.mask

\* from_str, lines 54-57: the address text parsed, then the value built.
WithAddr(a, m) ==
    IF ~a.ok THEN Err("InvalidAddr", <<a.err>>)
    ELSE Ok([addr |-> a.val, mask |-> m])

\* WithMask with the limit off by one: 33 passes.
WithMask_limit33(addrText, m) ==
    IF ~m.ok THEN Err("InvalidMask", <<m.err>>)
    ELSE IF UsizeGt(m.val, Usize(33)) THEN Err("InvalidMask", <<>>)
    ELSE WithAddr(ParseIpAddr(addrText), m.val)

\* from_str, lines 47-58: the mask text parsed and checked before the address.
WithMask(addrText, m) ==
    IF ~m.ok THEN Err("InvalidMask", <<m.err>>)
    ELSE IF UsizeGt(m.val, Usize(32)) THEN Err("InvalidMask", <<>>)
    ELSE WithAddr(ParseIpAddr(addrText), m.val)

\* from_str, lines 43-45: the text split at the first '/'.
WithParts(parts) ==
    IF parts = <<>> THEN Err("NoDelimiter", <<>>)
    ELSE WithMask(parts[1][1], ParseUsize(parts[1][2]))

\* from_str with the address parsed before the mask.
AddrFirstMask(a, m) ==
    IF ~m.ok THEN Err("InvalidMask", <<m.err>>)
    ELSE IF UsizeGt(m.val, Usize(32)) THEN Err("InvalidMask", <<>>)
    ELSE Ok([addr |-> a.val, mask |-> m.val])

AddrFirst(a, maskText) ==
    IF ~a.ok THEN Err("InvalidAddr", <<a.err>>) ELSE AddrFirstMask(a, ParseUsize(maskText))

AddrFirstParts(parts) ==
    IF parts = <<>> THEN Err("NoDelimiter", <<>>)
    ELSE AddrFirst(ParseIpAddr(parts[1][1]), parts[1][2])

from_str_addr_first(s) == AddrFirstParts(split_once(s, "/"))

\* <CidrAddress as FromStr>::from_str
from_str(s) == WithParts(split_once(s, "/"))

\* fmt with the mask zero-padded to two digits ("{}/{:02}").
PadMask(t) == IF Len(t) < 2 THEN "0" \o t ELSE t

fmt_padded(c) == FmtIpAddr(c.addr) \o "/" \o PadMask(FmtUsize(c.mask))

\* fmt with its two arguments exchanged.
fmt_swapped(c) == FmtUsize(c.mask) \o "/" \o FmtIpAddr(c.addr)

\* <CidrAddress as Display>::fmt
fmt(c) == FmtIpAddr(c.addr) \o "/" \o FmtUsize(c.mask)

(***************************************************************************)
(* options.rs.  A byte count (u64) is an integer: the code only compares   *)
(* and divides sizes, so no operation on them can overflow.                *)
(***************************************************************************)
\* <FsType as Display>::fmt
FsType_fmt(f) == IF f = "Ext4" THEN "ext4" ELSE "XFS"

\* FS_TYPES
FS_TYPES == <<"Ext4", "Xfs">>

Disk(path, size) == [path |-> path, size |-> size]

\* defaults_from with the threshold taken as 128 KiB instead of 128 MiB.
defaults_from_kib(disk) ==
    [ disk          |-> disk,
      total_size    |-> disk.size,
      swap_size     |-> 4 * 1024 * 1024,
      max_root_size |-> 0,
      max_data_size |-> 0,
      min_lvm_free  |-> IF disk.size > 128 * 1024 THEN 16 * 1024 * 1024
                        ELSE disk.size \div 8 ]

\* defaults_from with the threshold taken as 256 MiB instead of 128 MiB.
defaults_from_256(disk) ==
    [ disk          |-> disk,
      total_size    |-> disk.size,
      swap_size     |-> 4 * 1024 * 1024,
      max_root_size |-> 0,
      max_data_size |-> 0,
      min_lvm_free  |-> IF disk.size > 256 * 1024 * 1024 THEN 16 * 1024 * 1024
                        ELSE disk.size \div 8 ]

\* LvmBootdiskOptions::defaults_from
defaults_from(disk) ==
    [ disk          |-> disk,
      total_size    |-> disk.size,
      swap_size     |-> 4 * 1024 * 1024,
      max_root_size |-> 0,
      max_data_size |-> 0,
      min_lvm_free  |-> IF disk.size > 128 * 1024 * 1024 THEN 16 * 1024 * 1024
                        ELSE disk.size \div 8 ]

\* AdvancedBootdiskOptions::Lvm
Lvm(options) == [variant |-> "Lvm", lvm |-> options]

\* AdvancedBootdiskOptions::selected_disks
selected_disks(advanced) == <<advanced.lvm.disk>>

\* <TimezoneOptions as Default>::default
TimezoneOptions_default == [timezone |-> "Europe/Vienna", kb_layout |-> "en_US"]

\* <PasswordOptions as Default>::default
PasswordOptions_default == [email |-> "mail@example.invalid", root_password |-> ""]

\* Result::unwrap: the value, or a panic.
unwrap(res) == IF res.ok THEN [panic |-> FALSE, val |-> res.val] ELSE [panic |-> TRUE]

NetworkOptions_with(address) ==
    IF address.panic THEN address
    ELSE [ panic |-> FALSE,
           val   |-> [ ifname     |-> "",
                       fqdn       |-> "pve.example.invalid",
                       address    |-> address.val,
                       gateway    |-> V4(0, 0, 0, 0),
                       dns_server |-> V4(0, 0, 0, 0) ] ]

\* The default address with the IPv6 prefix length of an unspecified address.
DefaultAddress_128 == unwrap(new(V4(0, 0, 0, 0), Usize(128)))

\* The address field of the default: CidrAddress::new(UNSPECIFIED, 0).unwrap()
DefaultAddress == unwrap(new(V4(0, 0, 0, 0), Usize(0)))

\* <NetworkOptions as Default>::default: the value, or the panic of its unwrap.
NetworkOptions_default == NetworkOptions_with(DefaultAddress)

\* SummaryOption::new: a row of the summary, a label and a value.
SummaryOption(name, value) == [name |-> name, value |-> value]

RECURSIVE Join(_, _)
\* [&str]::join
Join(texts, sep) ==
    IF texts = <<>> THEN ""
    ELSE IF Len(texts) = 1 THEN texts[1]
    ELSE texts[1] \o sep \o Join(Tail(texts), sep)

Paths(disks) == [i \in 1..Len(disks) |-> disks[i].path]

\* to_summary with the timezone and keyboard rows exchanged.
to_summary_swapped(o) ==
    << SummaryOption("Bootdisk filesystem", FsType_fmt(o.bootdisk.fstype)),
       SummaryOption("Bootdisks", Join(Paths(selected_disks(o.bootdisk.advanced)), ", ")),
       SummaryOption("Keyboard layout", o.timezone.kb_layout),
       SummaryOption("Timezone", o.timezone.timezone),
       SummaryOption("Administator email:", o.password.email),
       SummaryOption("Management interface:", o.network.ifname),
       SummaryOption("Hostname:", o.network.fqdn),
       SummaryOption("Host IP (CIDR):", fmt(o.network.address)),
       SummaryOption("Gateway", FmtIpAddr(o.network.gateway)),
       SummaryOption("DNS:", FmtIpAddr(o.network.dns_server)) >>

\* InstallerOptions::to_summary
to_summary(o) ==
    << SummaryOption("Bootdisk filesystem", FsType_fmt(o.bootdisk.fstype)),
       SummaryOption("Bootdisks", Join(Paths(selected_disks(o.bootdisk.advanced)), ", ")),
       SummaryOption("Timezone", o.timezone.timezone),
       SummaryOption("Keyboard layout", o.timezone.kb_layout),
       SummaryOption("Administator email:", o.password.email),
       SummaryOption("Management interface:", o.network.ifname),
       SummaryOption("Hostname:", o.network.fqdn),
       SummaryOption("Host IP (CIDR):", fmt(o.network.address)),
       SummaryOption("Gateway", FmtIpAddr(o.network.gateway)),
       SummaryOption("DNS:", FmtIpAddr(o.network.dns_server)) >>

(***************************************************************************)
(* Inputs of the CidrAddress operations.                                   *)
(***************************************************************************)
\* Masks are taken within MaskSpan of the limit, besides a few fixed ones.
MaskSpan == 2

AddrValues ==
    { V4(0, 0, 0, 0), V4(192, 168, 1, 10), V4(255, 255, 255, 255),
      V6(<<0, 0, 0, 0, 0, 0, 0, 0>>), V6(<<0, 0, 0, 0, 0, 65535, 258, 772>>),
      V6(<<8193, 3512, 0, 0, 0, 0, 0, 1>>), V6(<<1, 0, 0, 2, 0, 0, 0, 3>>),
      V6(<<1, 2, 3, 4, 5, 6, 7, 0>>), V6(<<65152, 0, 0, 0, 43981, 4660, 255, 65535>>) }

MaskValues ==
    {Usize(n) : n \in {0, 24} \cup ((32 - MaskSpan)..(32 + MaskSpan))}
        \cup {Usize(2147483647), USIZE_MAX}

AddrTexts ==
    {FmtIpAddr(a) : a \in AddrValues}
        \cup { "2001:DB8::1", "::1.2.3.4", "1:2:3:4:5:6:7::", "1:2:3:4:5:6:1.2.3.4",
               "", "not-an-ip", "256.1.1.1", "01.2.3.4", "1.2.3", " 1.2.3.4",
               "1::2::3", "12345::" }

MaskTexts ==
    {FmtUsize(m) : m \in MaskValues}
        \cup { "+24", "024", "00", "+033", "", "+", "-1", "abc", " 24", "24/5", "3/",
               "99999999999", "18446744073709551616", "99999999999999999999999" }

InputTexts ==
    AddrTexts \cup MaskTexts \cup {a \o "/" \o m : a \in AddrTexts, m \in MaskTexts}

(***************************************************************************)
(* Inputs of the option groups.                                            *)
(***************************************************************************)
MiB == 1024 * 1024

\* Disk sizes go up to MaxSizeSteps steps of 16 MiB, each with its two
\* neighbours, besides a few sizes near zero.
MaxSizeSteps == 17

DiskSizes ==
    {0, 1, 7, 8, 9}
        \cup {n \in {k * 16 * MiB + d : k \in 0..MaxSizeSteps, d \in {-1, 0, 1}} : n >= 0}

DiskPaths == {"/dev/sda", "/dev/nvme0n1"}

\* The disks the discovery collaborator reports to the installer.
Disks == <<Disk("/dev/sda", 64 * MiB), Disk("/dev/sdb", 128 * MiB), Disk("/dev/nvme0n1", 256 * MiB)>>

TimezoneEdits == {[timezone |-> "UTC", kb_layout |-> "de"]}

PasswordEdits == {[email |-> "root@pve.example", root_password |-> "secret"]}

AddressTexts == {"192.168.1.10/24", "2001:db8::1/32"}

(***************************************************************************)
(* State.                                                                  *)
(*   held      : Option<CidrAddress>, the value the last successful        *)
(*               construction returned;                                    *)
(*   last      : the last call, its arguments and what it returned;        *)
(*   lvm       : Option<LvmBootdiskOptions>, the defaults derived last;    *)
(*   prevLvm   : the defaults derived before those;                        *)
(*   bootdisk, timezone, password, network :                               *)
(*               the Option of each field of InstallerOptions;             *)
(*   summary   : the rows to_summary returned for the fields as they are;  *)
(*   panicked  : an unwrap met an error.                                   *)
(***************************************************************************)
VARIABLES held, last, lvm, prevLvm, bootdisk, timezone, password, network, summary, panicked

cidrVars == <<held, last>>

lvmVars == <<lvm, prevLvm>>

optionVars == <<bootdisk, timezone, password, network, summary, panicked>>

vars == <<held, last, lvm, prevLvm, bootdisk, timezone, password, network, summary, panicked>>

Init ==
    /\ held = <<>>
    /\ last = [op |-> "none"]
    /\ lvm = <<>>
    /\ prevLvm = <<>>
    /\ bootdisk = <<>>
    /\ timezone = <<>>
    /\ password = <<>>
    /\ network = <<>>
    /\ summary = <<>>
    /\ panicked = FALSE

(***************************************************************************)
(* The CidrAddress operations.                                             *)
(***************************************************************************)
Keep(res) == IF res.ok THEN <<res.val>> ELSE held

\* let r = CidrAddress::new(a, m)
New ==
    /\ \E a \in AddrValues, m \in MaskValues :
        LET res == new(a, m)
        IN  /\ last' = [op |-> "new", addr |-> a, mask |-> m, res |-> res]
            /\ held' = Keep(res)
    /\ UNCHANGED <<lvmVars, optionVars>>

\* from_str over the input texts, evaluated once for all of them.
from_str_of == [s \in InputTexts |-> from_str(s)]

\* let r = text.parse::<CidrAddress>()
FromStr ==
    /\ \E s \in InputTexts :
        LET res == from_str_of[s]
        IN  /\ last' = [op |-> "from_str", text |-> s, res |-> res]
            /\ held' = Keep(res)
    /\ UNCHANGED <<lvmVars, optionVars>>

\* let text = c.to_string()
Format ==
    /\ held # <<>>
    /\ last' = [op |-> "fmt", of |-> held[1], text |-> fmt(held[1])]
    /\ UNCHANGED <<held, lvmVars, optionVars>>

\* c.to_string().parse::<CidrAddress>(): the text Display wrote, parsed back.
Reparse ==
    /\ last.op = "fmt"
    /\ LET res == from_str(last.text)
       IN  /\ last' = [op |-> "reparse", of |-> last.of, text |-> last.text, res |-> res]
           /\ held' = Keep(res)
    /\ UNCHANGED <<lvmVars, optionVars>>

\* (c.addr(), c.mask())
Accessors ==
    /\ held # <<>>
    /\ last' = [op |-> "get", of |-> held[1], addr |-> addr(held[1]), mask |-> mask(held[1])]
    /\ UNCHANGED <<held, lvmVars, optionVars>>

Next == New \/ FromStr \/ Format \/ Reparse \/ Accessors

Spec == Init /\ [][Next]_vars

(***************************************************************************)
(* The derivation of the LVM defaults, one disk after another.             *)
(***************************************************************************)
\* let options = LvmBootdiskOptions::defaults_from(&disk)
DefaultsFrom ==
    /\ \E path \in DiskPaths, size \in DiskSizes :
        /\ lvm' = <<defaults_from(Disk(path, size))>>
        /\ last' = [op |-> "defaults_from", disk |-> Disk(path, size)]
    /\ prevLvm' = lvm
    /\ UNCHANGED <<held, optionVars>>

LvmNext == DefaultsFrom

LvmSpec == Init /\ [][LvmNext]_vars

(***************************************************************************)
(* The option groups of InstallerOptions: built by their defaults, edited  *)
(* through their public fields, and summarised.  Every change of a field   *)
(* discards the summary taken before it.                                   *)
(***************************************************************************)
\* TimezoneOptions::default()
TimezoneDefault ==
    /\ timezone' = <<TimezoneOptions_default>>
    /\ last' = [op |-> "timezone_default"]
    /\ summary' = <<>>
    /\ UNCHANGED <<held, lvmVars, bootdisk, password, network, panicked>>

\* PasswordOptions::default()
PasswordDefault ==
    /\ password' = <<PasswordOptions_default>>
    /\ last' = [op |-> "password_default"]
    /\ summary' = <<>>
    /\ UNCHANGED <<held, lvmVars, bootdisk, timezone, network, panicked>>

\* NetworkOptions::default()
NetworkDefault ==
    /\ ~panicked
    /\ network' = IF NetworkOptions_default.panic THEN network
                  ELSE <<NetworkOptions_default.val>>
    /\ panicked' = NetworkOptions_default.panic
    /\ last' = [op |-> "network_default"]
    /\ summary' = <<>>
    /\ UNCHANGED <<held, lvmVars, bootdisk, timezone, password>>

\* BootdiskOptions { disks, fstype, advanced: Lvm(defaults_from(&disks[i])) }
SelectBootdisk ==
    /\ ~panicked
    /\ \E i \in 1..Len(Disks), f \in 1..Len(FS_TYPES) :
        bootdisk' = << [ disks    |-> Disks,
                         fstype   |-> FS_TYPES[f],
                         advanced |-> Lvm(defaults_from(Disks[i])) ] >>
    /\ last' = [op |-> "select_bootdisk"]
    /\ summary' = <<>>
    /\ UNCHANGED <<held, lvmVars, timezone, password, network, panicked>>

\* options.timezone.timezone = ...; options.timezone.kb_layout = ...
EditTimezone ==
    /\ ~panicked
    /\ timezone # <<>>
    /\ \E e \in TimezoneEdits : timezone' = <<e>>
    /\ last' = [op |-> "edit_timezone"]
    /\ summary' = <<>>
    /\ UNCHANGED <<held, lvmVars, bootdisk, password, network, panicked>>

\* options.password.email = ...; options.password.root_password = ...
EditPassword ==
    /\ ~panicked
    /\ password # <<>>
    /\ \E e \in PasswordEdits : password' = <<e>>
    /\ last' = [op |-> "edit_password"]
    /\ summary' = <<>>
    /\ UNCHANGED <<held, lvmVars, bootdisk, timezone, network, panicked>>

\* options.network.address = text.parse()?, with the interface, the gateway
\* and the DNS server of that network.
EditNetwork ==
    /\ ~panicked
    /\ network # <<>>
    /\ \E s \in AddressTexts :
        /\ from_str(s).ok
        /\ network' = << [ ifname     |-> "eno1",
                           fqdn       |-> "node1.example.com",
                           address    |-> from_str(s).val,
                           gateway    |-> addr(from_str(s).val),
                           dns_server |-> V4(192, 168, 1, 1) ] >>
    /\ last' = [op |-> "edit_network"]
    /\ summary' = <<>>
    /\ UNCHANGED <<held, lvmVars, bootdisk, timezone, password, panicked>>

\* InstallerOptions { bootdisk, timezone, password, network }
InstallerOptions ==
    [ bootdisk |-> bootdisk[1], timezone |-> timezone[1],
      password |-> password[1], network |-> network[1] ]

Complete == bootdisk # <<>> /\ timezone # <<>> /\ password # <<>> /\ network # <<>>

\* let rows = options.to_summary()
ToSummary ==
    /\ ~panicked
    /\ Complete
    /\ summary' = to_summary(InstallerOptions)
    /\ last' = [op |-> "to_summary"]
    /\ UNCHANGED <<held, lvmVars, bootdisk, timezone, password, network, panicked>>

OptionsNext ==
    \/ TimezoneDefault
    \/ PasswordDefault
    \/ NetworkDefault
    \/ SelectBootdisk
    \/ EditTimezone
    \/ EditPassword
    \/ EditNetwork
    \/ ToSummary

OptionsSpec == Init /\ [][OptionsNext]_vars

(***************************************************************************)
(* Notions the properties below are stated with.                           *)
(***************************************************************************)
HasSlash(s) == \E i \in 1..Len(s) : Char(s, i) = "/"

FirstSlash(s) ==
    CHOOSE i \in 1..Len(s) : Char(s, i) = "/" /\ \A j \in 1..(i - 1) : Char(s, j) # "/"

\* The text before and the text after the first '/'.
LeftOf(s) == SubSeq(s, 1, FirstSlash(s) - 1)

RightOf(s) == SubSeq(s, FirstSlash(s) + 1, Len(s))

\* The decimal numeral of a natural number: digits only, no leading zero.
IsNumeral(t) ==
    /\ t # ""
    /\ \A i \in 1..Len(t) : IsDecDigit(Char(t, i))
    /\ Len(t) = 1 \/ Char(t, 1) # "0"

\* t <= u for two numerals, as numbers.
NumeralLe(t, u) ==
    \/ Len(t) < Len(u)
    \/ t = u
    \/ /\ Len(t) = Len(u)
       /\ \E i \in 1..Len(t) :
            /\ SubSeq(t, 1, i - 1) = SubSeq(u, 1, i - 1)
            /\ DecVal(Char(t, i)) < DecVal(Char(u, i))

UsizeMaxText == "18446744073709551615"

\* The last call parsed a text: FromStr, or Reparse of a formatted value.
Parsed == last.op \in {"from_str", "reparse"}

\* The last call parsed "<addr>/<n>": a valid address literal, a '/' and the
\* numeral of n.
ParsedAddrAndNumeral ==
    /\ Parsed
    /\ HasSlash(last.text)
    /\ ParseIpAddr(LeftOf(last.text)).ok
    /\ IsNumeral(RightOf(last.text))

MaskRangeError == Err("InvalidMask", <<>>)

\* C1 as stated: for every n > 32, new(addr, n) and from_str("<addr>/<n>")
\* fail with InvalidMask(None), never with InvalidMask(Some(_)).
C1_MaskBoundAnyN ==
    /\ (last.op = "new" /\ UsizeGt(last.mask, Usize(32))) => last.res = MaskRangeError
    /\ (ParsedAddrAndNumeral /\ ~NumeralLe(RightOf(last.text), "32"))
            => last.res = MaskRangeError

\* C1 amended: for every n with 32 < n <= usize::MAX, new(addr, n) and
\* from_str("<addr>/<n>") fail with InvalidMask(None); a numeral above
\* usize::MAX fails with InvalidMask(Some(_)), the wrapped parse error.
C1_MaskBound ==
    /\ (last.op = "new" /\ UsizeGt(last.mask, Usize(32))) => last.res = MaskRangeError
    /\ (ParsedAddrAndNumeral /\ ~NumeralLe(RightOf(last.text), "32"))
            => IF NumeralLe(RightOf(last.text), UsizeMaxText)
               THEN last.res = MaskRangeError
               ELSE ~last.res.ok /\ last.res.err = "InvalidMask" /\ last.res.cause # <<>>

\* from_str of an IPv6 literal with the numeral of usize::MAX failed with
\* the mask-range error.
C1_Witness ==
    /\ ParsedAddrAndNumeral
    /\ RightOf(last.text) = UsizeMaxText
    /\ ParseIpAddr(LeftOf(last.text)).val.v = 6
    /\ last.res = MaskRangeError

\* C2 as stated: when the text before the first '/' is no valid address
\* literal, from_str fails with InvalidAddr whatever follows the '/'.
C2_InvalidAddrWhateverMask ==
    (Parsed /\ HasSlash(last.text) /\ ~ParseIpAddr(LeftOf(last.text)).ok)
        => (~last.res.ok /\ last.res.err = "InvalidAddr")

MaskTextAccepted(t) == ParseUsize(t).ok /\ ~UsizeGt(ParseUsize(t).val, Usize(32))

\* C2 amended: when the text before the first '/' is no valid address
\* literal, from_str fails with InvalidAddr if the text after the '/' parses
\* as an integer of at most 32, and with InvalidMask otherwise: the mask is
\* examined first.
C2_InvalidAddr ==
    (Parsed /\ HasSlash(last.text) /\ ~ParseIpAddr(LeftOf(last.text)).ok)
        => /\ ~last.res.ok
           /\ last.res.err = IF MaskTextAccepted(RightOf(last.text))
                             THEN "InvalidAddr" ELSE "InvalidMask"

\* from_str("not-an-ip/24") failed with InvalidAddr.
C2_Witness ==
    /\ last.op = "from_str"
    /\ last.text = "not-an-ip/24"
    /\ last.res = Err("InvalidAddr", <<"AddrParseError">>)

AllDigits(t) == t # "" /\ \A i \in 1..Len(t) : IsDecDigit(Char(t, i))

\* from_str accepted a text whose address is an IPv4 literal and whose mask
\* text is made of decimal digits.
AcceptedV4 ==
    /\ last.op = "from_str"
    /\ last.res.ok
    /\ addr(last.res.val).v = 4
    /\ AllDigits(RightOf(last.text))

\* C3 as stated: every accepted text "<ipv4>/<n>" whose mask part is a
\* decimal number n, 0 <= n <= 32, is reproduced exactly by Display.
C3_RoundTripAnyDigits == AcceptedV4 => fmt(last.res.val) = last.text

\* C3 amended: every accepted text "<ipv4>/<n>" whose mask part is the
\* numeral of n (no sign, no leading zero), 0 <= n <= 32, is reproduced
\* exactly by Display.
C3_RoundTrip ==
    (AcceptedV4 /\ IsNumeral(RightOf(last.text))) => fmt(last.res.val) = last.text

\* An IPv4 text with a one-digit mask was accepted and formats to itself.
C3_Witness ==
    /\ AcceptedV4
    /\ IsNumeral(RightOf(last.text))
    /\ Len(RightOf(last.text)) = 1
    /\ fmt(last.res.val) = last.text

MaskInRange(c) == ~UsizeGt(mask(c), Usize(32))

\* C4: every CidrAddress that exists has mask <= 32: a value that new or
\* from_str returned, and the value held while later operations run; a
\* call that fails returns no value.
C4_MaskAtMost32 ==
    /\ held # <<>> => MaskInRange(held[1])
    /\ last.op \in {"new", "from_str", "reparse"}
            => IF last.res.ok
               THEN MaskInRange(last.res.val) /\ held = <<last.res.val>>
               ELSE "val" \notin DOMAIN last.res
    /\ last.op \in {"fmt", "get"} => held = <<last.of>> /\ MaskInRange(last.of)

\* A value with mask 32 is held and a later parse failed with the
\* mask-range error.
C4_Witness ==
    /\ held # <<>>
    /\ mask(held[1]) = Usize(32)
    /\ Parsed
    /\ last.res = MaskRangeError

\* C5: Display renders a value as "<address>/<mask>", and from_str of that
\* text succeeds with the same addr() and the same mask().
C5_FormatThenParse ==
    /\ last.op \in {"fmt", "reparse"}
            => last.text = FmtIpAddr(addr(last.of)) \o "/" \o FmtUsize(mask(last.of))
    /\ last.op = "reparse"
            => /\ last.res.ok
               /\ addr(last.res.val) = addr(last.of)
               /\ mask(last.res.val) = mask(last.of)

\* An IPv6 value whose text holds "::" was formatted and parsed back.
C5_Witness ==
    /\ last.op = "reparse"
    /\ addr(last.of).v = 6
    /\ \E i \in 1..(Len(last.text) - 1) : SubSeq(last.text, i, i + 1) = "::"
    /\ last.res.ok
    /\ last.res.val = last.of

\* C8: a text without '/' is rejected with NoDelimiter whatever it holds; a
\* text with '/' is split at the first '/' only, so that a second '/'
\* belongs to the mask text and makes it unparsable.
C8_Delimiter ==
    Parsed =>
        IF ~HasSlash(last.text)
        THEN last.res = Err("NoDelimiter", <<>>)
        ELSE /\ ~(~last.res.ok /\ last.res.err = "NoDelimiter")
             /\ HasSlash(RightOf(last.text))
                    => (~last.res.ok /\ last.res.err = "InvalidMask" /\ last.res.cause # <<>>)

\* A text with a valid address, a valid mask and one more '/' was rejected
\* for its mask.
C8_Witness ==
    /\ last.op = "from_str"
    /\ last.text = "192.168.1.10/24/5"
    /\ last.res = Err("InvalidMask", <<"InvalidDigit">>)

Min(a, b) == IF a <= b THEN a ELSE b

\* C6: defaults_from(disk) returns the disk itself, total_size = disk.size,
\* swap_size = 4 MiB, max_root_size = max_data_size = 0, and min_lvm_free
\* = 16 MiB when disk.size > 128 MiB, else disk.size / 8; 64, 128 and
\* 256 MiB give 8, 16 and 16 MiB.
C6_Defaults ==
    last.op = "defaults_from" =>
        /\ lvm # <<>>
        /\ lvm[1].disk = last.disk
        /\ lvm[1].total_size = last.disk.size
        /\ lvm[1].swap_size = 4 * MiB
        /\ lvm[1].max_root_size = 0
        /\ lvm[1].max_data_size = 0
        /\ last.disk.size > 128 * MiB => lvm[1].min_lvm_free = 16 * MiB
        /\ last.disk.size <= 128 * MiB => lvm[1].min_lvm_free = last.disk.size \div 8
        /\ last.disk.size = 64 * MiB => lvm[1].min_lvm_free = 8 * MiB
        /\ last.disk.size = 128 * MiB => lvm[1].min_lvm_free = 16 * MiB
        /\ last.disk.size = 256 * MiB => lvm[1].min_lvm_free = 16 * MiB

\* The defaults of a disk of 64 MiB, below the threshold, were derived: an
\* eighth of it, 8 MiB, is left free.
C6_Witness ==
    /\ last.op = "defaults_from"
    /\ last.disk.size = 64 * MiB
    /\ lvm[1].min_lvm_free = 8 * MiB
    /\ lvm[1].total_size = 64 * MiB

\* C10: min_lvm_free = min(disk.size / 8, 16 MiB): it never exceeds 16 MiB
\* nor an eighth of total_size, and it does not decrease when the disk
\* grows, also across the 128 MiB threshold.
C10_MinLvmFree ==
    /\ lvm # <<>> =>
        /\ lvm[1].min_lvm_free = Min(lvm[1].disk.size \div 8, 16 * MiB)
        /\ lvm[1].min_lvm_free <= 16 * MiB
        /\ lvm[1].min_lvm_free * 8 <= lvm[1].total_size
    /\ (lvm # <<>> /\ prevLvm # <<>> /\ prevLvm[1].disk.size <= lvm[1].disk.size)
            => prevLvm[1].min_lvm_free <= lvm[1].min_lvm_free

\* The defaults of a disk of exactly 128 MiB and then of one byte more were
\* derived: both leave 16 MiB free.
C10_Witness ==
    /\ lvm # <<>> /\ prevLvm # <<>>
    /\ prevLvm[1].disk.size = 128 * MiB
    /\ lvm[1].disk.size = 128 * MiB + 1
    /\ prevLvm[1].min_lvm_free = 16 * MiB
    /\ lvm[1].min_lvm_free = 16 * MiB

RowValues(rows) == [i \in 1..Len(rows) |-> rows[i].value]

\* C7: to_summary returns exactly 10 rows in the fixed order: filesystem
\* (its display string), the path of the one disk the Lvm variant was built
\* from, timezone, keyboard layout, email, interface, hostname, the host
\* address in CIDR form, gateway, DNS server.
C7_Summary ==
    last.op = "to_summary" =>
        /\ Len(summary) = 10
        /\ \A i \in 1..Len(summary) : DOMAIN summary[i] = {"name", "value"}
        /\ RowValues(summary) =
            << IF bootdisk[1].fstype = "Ext4" THEN "ext4" ELSE "XFS",
               bootdisk[1].advanced.lvm.disk.path,
               timezone[1].timezone,
               timezone[1].kb_layout,
               password[1].email,
               network[1].ifname,
               network[1].fqdn,
               FmtIpAddr(addr(network[1].address)) \o "/"
                    \o FmtUsize(mask(network[1].address)),
               FmtIpAddr(network[1].gateway),
               FmtIpAddr(network[1].dns_server) >>
        /\ \E i \in 1..Len(Disks) : Disks[i].path = summary[2].value

\* The summary of an edited configuration on XFS with an IPv6 host address
\* was taken.
C7_Witness ==
    /\ last.op = "to_summary"
    /\ Len(summary) = 10
    /\ summary[1].value = "XFS"
    /\ summary[2].value = "/dev/nvme0n1"
    /\ summary[3].value = "UTC"
    /\ summary[8].value = "2001:db8::1/32"

\* C9: default construction never fails: NetworkOptions::default() does not
\* panic and yields address "0.0.0.0/0", gateway "0.0.0.0" and DNS server
\* "0.0.0.0"; TimezoneOptions::default() yields "Europe/Vienna" and "en_US".
C9_Defaults ==
    /\ ~panicked
    /\ last.op = "network_default" =>
        /\ network # <<>>
        /\ fmt(network[1].address) = "0.0.0.0/0"
        /\ addr(network[1].address) = V4(0, 0, 0, 0)
        /\ mask(network[1].address) = Usize(0)
        /\ FmtIpAddr(network[1].gateway) = "0.0.0.0"
        /\ FmtIpAddr(network[1].dns_server) = "0.0.0.0"
    /\ last.op = "timezone_default" =>
        /\ timezone # <<>>
        /\ timezone[1].timezone = "Europe/Vienna"
        /\ timezone[1].kb_layout = "en_US"

\* The network defaults were built again over an edited network, next to
\* the timezone defaults.
C9_Witness ==
    /\ last.op = "network_default"
    /\ ~panicked
    /\ fmt(network[1].address) = "0.0.0.0/0"
    /\ timezone = <<TimezoneOptions_default>>
====
